---- MODULE Spec2Model ----
(***************************************************************************)
(* Ripmaster.py: job discovery (get_movies), the two-file checkpoint       *)
(* (movies.p / movies.p.bak) and the stage loops of main().                *)
(*                                                                         *)
(* The process is modelled statement by statement (pc), together with the  *)
(* two files on disk, which survive a crash.  A crash may hit at any       *)
(* statement; main() is then started again.  The Movie class lives in      *)
(* tools.py, which is not part of the sources at hand; its constructor and  *)
(* its three stage methods are modelled from the specification (a stage    *)
(* method sets its flag only when the external operation succeeded).       *)
(***************************************************************************)
EXTENDS Naturals, Sequences, FiniteSets, TLC

VARIABLES
    pc,          \* statement main() is at, or how the last run ended
    loop,        \* 0: initial checkpoint (l.293-296); 1..4: the four for-loops
    idx,         \* position of the for-loop in movies (1-based)
    movies,      \* main's list `movies`
    newMovies,   \* main's list `newMovies`
    primary,     \* file ./movies.p
    backup,      \* file ./movies.p.bak
    done,        \* history: <<path, stage>> whose external operation succeeded
    events,      \* history of the current run: visits, calls and their outcomes
    lastCkpt,    \* history: last registry dumped to primary AND copied to backup
    lastExit,    \* history: how and where the previous run ended
    recovered,   \* history: the registry as loaded at this run's startup
    discovered,  \* history: get_movies' result of this run
    rootListing  \* history: what os.listdir(root) returned to get_movies

vars == <<pc, loop, idx, movies, newMovies, primary, backup,
          done, events, lastCkpt, lastExit, recovered, discovered,
          rootListing>>

(***************************************************************************)
(* Bounds                                                                  *)
(***************************************************************************)
\* longest listing os.listdir(root) returns
MaxListing == 2

(***************************************************************************)
(* Names.  A name is a sequence of character groups, so that the           *)
(* substring tests of get_movies are computed, not assumed.                *)
(***************************************************************************)
DirA    == <<"A", "_", "_", "hq">>
DirB    == <<"B", "_", "_", "tv">>
DirJunk == <<"junk", "_", "x">>
DirNames == {DirA, DirB, DirJunk}

FileM     == <<"m", ".mkv">>
FileMConv == <<"m", "--converted", ".mkv">>
FileN     == <<"n", ".mkv">>
FileTxt   == <<"notes", ".txt">>
FileJ     == <<"j", ".mkv">>

\* os.listdir of a subdirectory of the root
ListDir(d) ==
    IF d = DirA THEN <<FileM, FileMConv>>
    ELSE IF d = DirB THEN <<FileTxt, FileN>>
    ELSE <<FileJ>>

\* Python's  needle in s  on strings
Contains(needle, s) ==
    \E i \in 1..Len(s) :
        /\ i + Len(needle) - 1 <= Len(s)
        /\ SubSeq(s, i, i + Len(needle) - 1) = needle

\* list.remove(x): drops the first element equal to x
RECURSIVE RemoveFirst(_, _)
RemoveFirst(s, x) ==
    IF s = <<>> THEN <<>>
    ELSE IF Head(s) = x THEN Tail(s)
    ELSE <<Head(s)>> \o RemoveFirst(Tail(s), x)

\* every listing os.listdir(root) can return: distinct names, any order
RECURSIVE ListingsOfLen(_)
ListingsOfLen(n) ==
    IF n = 0 THEN {<<>>}
    ELSE {Append(l, d) : l \in ListingsOfLen(n - 1), d \in DirNames}

Distinct(s) == \A i, j \in 1..Len(s) : i # j => s[i] # s[j]

Listings ==
    {l \in UNION {ListingsOfLen(n) : n \in 0..MaxListing} : Distinct(l)}

(***************************************************************************)
(* Movie (tools.py)                                                        *)
(***************************************************************************)
\* Movie(dir, d, f): identity is the source path, all four flags false
Movie(d, f) ==
    [path |-> <<d, f>>, extracted |-> FALSE, converted |-> FALSE,
     encoded |-> FALSE, merged |-> FALSE]

\* how a stage method can end: it succeeds; it reports the failure and
\* returns; it raises
Outcomes == {"ok", "fail", "raise"}

\* (a method that sets its flag before the operation has succeeded)
extractTracksEager(m, out) == [m EXCEPT !.extracted = TRUE]
extractTracks(m, out) == IF out = "ok" THEN [m EXCEPT !.extracted = TRUE] ELSE m
convertTracks(m, out) == IF out = "ok" THEN [m EXCEPT !.converted = TRUE] ELSE m
encodeMovie(m, out)   == IF out = "ok" THEN [m EXCEPT !.encoded = TRUE] ELSE m

(***************************************************************************)
(* get_movies (l.219-236)                                                  *)
(***************************************************************************)
\* l.230-234: the candidates of one subdirectory
RECURSIVE FilesLoop(_, _)
FilesLoop(d, files) ==
    IF files = <<>> THEN <<>>
    ELSE LET f == Head(files) IN
         (IF ~Contains(<<"--converted">>, f) /\ Contains(<<".mkv">>, f)
             THEN <<Movie(d, f)>> ELSE <<>>)
         \o FilesLoop(d, Tail(files))

\* l.224-234: the for-loop over `directories`, which the body shrinks while
\* the iterator's index keeps advancing
RECURSIVE DirLoop(_, _, _)
DirLoop(directories, i, movieList) ==
    IF i > Len(directories) THEN movieList
    ELSE LET d == directories[i] IN
         IF ~Contains(<<"_", "_">>, d)
            THEN DirLoop(RemoveFirst(directories, d), i + 1, movieList)
            ELSE DirLoop(directories, i + 1,
                         movieList \o FilesLoop(d, ListDir(d)))

get_movies(listing) == DirLoop(listing, 1, <<>>)

(***************************************************************************)
(* Files                                                                   *)
(***************************************************************************)
Absent    == [kind |-> "absent", reg |-> <<>>]
Empty     == [kind |-> "empty", reg |-> <<>>]   \* opened "wb", nothing written
Torn      == [kind |-> "torn", reg |-> <<>>]    \* a strict prefix of a pickle
Full(reg) == [kind |-> "full", reg |-> reg]     \* a complete pickle of reg

\* what pickle.load makes of a file (l.262-263): the exception it ends with
\* ("none": it returns reg).  A torn pickle runs into the end of the data
\* (EOFError) or, cut inside an opcode's argument, into another exception.
pickle_load(file) ==
    CASE file.kind = "absent" -> {[exc |-> "IOError", reg |-> <<>>]}
      [] file.kind = "empty"  -> {[exc |-> "EOFError", reg |-> <<>>]}
      [] file.kind = "torn"   -> {[exc |-> "EOFError", reg |-> <<>>],
                                  [exc |-> "other", reg |-> <<>>]}
      [] file.kind = "full"   -> {[exc |-> "none", reg |-> file.reg]}

(***************************************************************************)
(* main: the merge of movies and newMovies (l.276-287)                     *)
(***************************************************************************)
\* l.277-281: the inner for-loop over newMovies, which the body shrinks
RECURSIVE RawLoop(_, _, _)
RawLoop(movie, nm, j) ==
    IF j > Len(nm) THEN nm
    ELSE IF movie.path = nm[j].path
            THEN RawLoop(movie, RemoveFirst(nm, nm[j]), j + 1)
            ELSE RawLoop(movie, nm, j + 1)

\* l.276-281: the outer for-loop over movies
\* (an outer loop that stops after the first recovered movie)
MovieLoopFirst(ms, i, nm) ==
    IF i > Len(ms) THEN nm ELSE RawLoop(ms[i], nm, 1)
RECURSIVE MovieLoop(_, _, _)
MovieLoop(ms, i, nm) ==
    IF i > Len(ms) THEN nm
    ELSE MovieLoop(ms, i + 1, RawLoop(ms[i], nm, 1))

\* (a merge that forgets to remove the duplicates)
NoFilter(ms, nm) == nm
\* newMovies once the duplicates are removed
Filtered(ms, nm) == MovieLoop(ms, 1, nm)

(***************************************************************************)
(* main: the stage loops (l.298-319)                                       *)
(***************************************************************************)
\* the flag each loop tests
Flag(k, m) ==
    CASE k = 1 -> m.extracted
      [] k = 2 -> m.converted
      [] k = 3 -> m.encoded
      [] k = 4 -> m.merged

\* the Movie method each loop calls
CallStage(k, m, out) ==
    CASE k = 1 -> extractTracks(m, out)
      [] k = 2 -> convertTracks(m, out)
      [] k = 3 -> encodeMovie(m, out)

\* (one loop that takes each job through all stages in turn)
PerJob(k, i) == IF k < 3 THEN <<k + 1, i>> ELSE <<1, i + 1>>
\* where the for-loops go after the body for job i of loop k
AfterJob(k, i) == <<k, i + 1>>

\* (a loop body without the dump)
SkipDump == "copy"
\* the statement after a stage method has returned
AfterCall == "dump"

Running ==
    {"recover_write", "load", "discover", "merge",
     "dump", "dump_write", "copy", "copy_write", "test", "call", "report"}
\* the statements of a checkpoint write (dump, then copy to the backup)
Writing == {"dump", "dump_write", "copy", "copy_write"}

\* what a write that stops half way leaves of the file it has truncated;
\* a piece of the pickle of the empty list reads like the empty file
\* (EOFError at every cut)
Partial(src) ==
    IF src.kind = "empty" \/ src = Full(<<>>) THEN {Empty} ELSE {Empty, Torn}

\* the files after main stops at statement at
FilesAfterStop(at) ==
    CASE at = "recover_write" ->
            {<<p, backup>> : p \in Partial(backup)}
      [] at = "dump_write" ->
            {<<p, backup>> : p \in Partial(Full(movies))}
      [] at = "copy_write" ->
            {<<primary, b>> : b \in Partial(primary)}
      [] OTHER -> {<<primary, backup>>}

Event(what, k, m) == [what |-> what, stage |-> k, path |-> m.path]
\* the stage operations that have failed and returned in this run
Failed == {<<e.path, e.stage>> : e \in {x \in events : x.what = "fail"}}

NoExit == [how |-> "none", writing |-> FALSE, failed |-> {}]
Exit(how) ==
    [how |-> how, writing |-> pc \in Writing \ {"dump"}, failed |-> Failed]

(***************************************************************************)
(* Init: nothing has run yet, no checkpoint file exists                    *)
(***************************************************************************)
Init ==
    /\ pc = "stopped"
    /\ loop = 0
    /\ idx = 0
    /\ movies = <<>>
    /\ newMovies = <<>>
    /\ primary = Absent
    /\ backup = Absent
    /\ done = {}
    /\ events = {}
    /\ lastCkpt = Absent
    /\ lastExit = NoExit
    /\ recovered = <<>>
    /\ discovered = <<>>
    /\ rootListing = <<>>

\* a startup that reads a complete primary and leaves the backup aside
StartPrimaryFirst ==
    /\ pc = "stopped"
    /\ IF backup.kind = "absent" \/ primary.kind = "full"
          THEN pc' = "load" /\ UNCHANGED primary
          ELSE pc' = "recover_write" /\ primary' = Empty
    /\ UNCHANGED <<loop, idx, movies, newMovies, backup, done, events,
                   lastCkpt, lastExit, recovered, discovered, rootListing>>

\* main() is started (l.327-328) and reaches l.253-256:
\* copyfile("./movies.p.bak", "./movies.p") opens the backup (IOError: pass)
\* and then truncates the primary
Start ==
    /\ pc = "stopped"
    /\ IF backup.kind = "absent"
          THEN pc' = "load" /\ UNCHANGED primary
          ELSE pc' = "recover_write" /\ primary' = Empty
    /\ UNCHANGED <<loop, idx, movies, newMovies, backup, done, events,
                   lastCkpt, lastExit, recovered, discovered, rootListing>>

\* copyfile has written all of the backup's bytes
RecoverClose ==
    /\ pc = "recover_write"
    /\ primary' = backup
    /\ pc' = "load"
    /\ UNCHANGED <<loop, idx, movies, newMovies, backup, done, events,
                   lastCkpt, lastExit, recovered, discovered, rootListing>>

\* l.261-266: pickle.load; IOError and EOFError give the empty list, any
\* other exception leaves main
Load ==
    /\ pc = "load"
    /\ \E r \in pickle_load(primary) :
          IF r.exc = "other"
             THEN /\ pc' = "stopped"
                  /\ lastExit' = Exit("load exception")
                  /\ UNCHANGED <<movies, recovered>>
             ELSE /\ pc' = "discover"
                  /\ movies' = r.reg
                  /\ recovered' = r.reg
                  /\ UNCHANGED lastExit
    /\ UNCHANGED <<loop, idx, newMovies, primary, backup, done, events,
                   lastCkpt, discovered, rootListing>>

\* l.274: newMovies = get_movies(root)
Discover ==
    /\ pc = "discover"
    /\ \E l \in Listings :
          /\ rootListing' = l
          /\ newMovies' = get_movies(l)
          /\ discovered' = get_movies(l)
    /\ pc' = "merge"
    /\ lastExit' = NoExit
    /\ UNCHANGED <<loop, idx, movies, primary, backup, done, events,
                   lastCkpt, recovered>>

\* l.276-287: remove the duplicates from newMovies, extend movies
Merge ==
    /\ pc = "merge"
    /\ newMovies' = Filtered(movies, newMovies)
    /\ movies' = movies \o Filtered(movies, newMovies)
    /\ pc' = "dump"
    /\ loop' = 0
    /\ rootListing' = <<>>
    /\ UNCHANGED <<idx, primary, backup, done, events,
                   lastCkpt, lastExit, recovered, discovered>>

\* l.293, 301, 307, 313: open("./movies.p", "wb") truncates the primary
DumpOpen ==
    /\ pc = "dump"
    /\ primary' = Empty
    /\ pc' = "dump_write"
    /\ recovered' = <<>>
    /\ discovered' = <<>>
    /\ UNCHANGED <<loop, idx, movies, newMovies, backup, done, events,
                   lastCkpt, lastExit, rootListing>>

\* l.294, 302, 308, 314: the whole list is written and the file closed
DumpClose ==
    /\ pc = "dump_write"
    /\ primary' = Full(movies)
    /\ pc' = "copy"
    /\ UNCHANGED <<loop, idx, movies, newMovies, backup, done, events,
                   lastCkpt, lastExit, recovered, discovered, rootListing>>

\* l.296, 303, 309, 315: copyfile("./movies.p", "./movies.p.bak")
\* truncates the backup
CopyOpen ==
    /\ pc = "copy"
    /\ backup' = Empty
    /\ pc' = "copy_write"
    /\ UNCHANGED <<loop, idx, movies, newMovies, primary, done, events,
                   lastCkpt, lastExit, recovered, discovered, rootListing>>

\* copyfile has written all of the primary's bytes; the for-loop goes on
CopyClose ==
    /\ pc = "copy_write"
    /\ backup' = primary
    /\ lastCkpt' = primary
    /\ pc' = "test"
    /\ IF loop = 0
          THEN loop' = 1 /\ idx' = 1
          ELSE loop' = AfterJob(loop, idx)[1] /\ idx' = AfterJob(loop, idx)[2]
    /\ UNCHANGED <<movies, newMovies, primary, done, events,
                   lastExit, recovered, discovered, rootListing>>

\* l.298-299, 304-305, 310-311, 316-319: the for statement and the test of
\* the flag; the merge loop's body is `pass`
Test ==
    /\ pc = "test"
    /\ IF idx > Len(movies)
          THEN /\ IF loop < 4
                     THEN pc' = "test" /\ loop' = loop + 1 /\ idx' = 1
                     ELSE pc' = "report" /\ UNCHANGED <<loop, idx>>
               /\ UNCHANGED events
          ELSE /\ events' = events \cup {Event("visit", loop, movies[idx])}
               /\ IF loop = 4
                     THEN /\ pc' = "test"
                          /\ loop' = AfterJob(loop, idx)[1]
                          /\ idx' = AfterJob(loop, idx)[2]
                     ELSE /\ pc' = IF Flag(loop, movies[idx]) THEN "copy" ELSE "call"
                          /\ UNCHANGED <<loop, idx>>
    /\ UNCHANGED <<movies, newMovies, primary, backup, done,
                   lastCkpt, lastExit, recovered, discovered, rootListing>>

\* the process is gone: its memory, and the history of the run, with it
Forget ==
    /\ loop' = 0
    /\ idx' = 0
    /\ movies' = <<>>
    /\ newMovies' = <<>>
    /\ events' = {}
    /\ recovered' = <<>>
    /\ discovered' = <<>>
    /\ rootListing' = <<>>

\* l.300, 306, 312: the stage method runs the external operation and
\* returns; main goes on to the dump
Call ==
    /\ pc = "call"
    /\ \E out \in Outcomes \ {"raise"} :
          /\ movies' = [movies EXCEPT ![idx] = CallStage(loop, @, out)]
          /\ events' = events \cup {Event("call", loop, movies[idx]),
                                    Event(out, loop, movies[idx])}
          /\ done' = IF out = "ok"
                        THEN done \cup {<<movies[idx].path, loop>>}
                        ELSE done
    /\ pc' = AfterCall
    /\ UNCHANGED <<loop, idx, newMovies, primary, backup,
                   lastCkpt, lastExit, recovered, discovered, rootListing>>

\* l.300, 306, 312: the stage method raises; main has no handler
CallRaises ==
    /\ pc = "call"
    /\ pc' = "stopped"
    /\ lastExit' = Exit("stage exception")
    /\ Forget
    /\ UNCHANGED <<primary, backup, done, lastCkpt>>

\* l.322-324: what is printed under "The following movies have been
\* completed:", the path of every movie of the list
Reported == [i \in 1..Len(movies) |-> movies[i].path]

\* l.321-325: the list of completed movies is printed, main returns
Report ==
    /\ pc = "report"
    /\ pc' = "stopped"
    /\ lastExit' = Exit("return")
    /\ Forget
    /\ UNCHANGED <<primary, backup, done, lastCkpt>>

\* open, pickle.dump or copyfile raises IOError, which main does not catch
WriteFails ==
    /\ pc \in Writing
    /\ pc' = "stopped"
    /\ lastExit' = Exit(IF pc \in {"dump", "dump_write"}
                            THEN "dump exception"
                            ELSE "copy exception")
    /\ Forget
    /\ \E f \in FilesAfterStop(pc) : primary' = f[1] /\ backup' = f[2]
    /\ UNCHANGED <<done, lastCkpt>>

\* the process is terminated (power loss, closed window); the files stay
Crash ==
    /\ pc \in Running
    /\ pc' = "stopped"
    /\ lastExit' = Exit("crash")
    /\ Forget
    /\ \E f \in FilesAfterStop(pc) : primary' = f[1] /\ backup' = f[2]
    /\ UNCHANGED <<done, lastCkpt>>

\* the user deletes movies.p, and movies.p alone, while Ripmaster is not
\* running
DeletePrimary ==
    /\ pc = "stopped"
    /\ primary.kind # "absent"
    /\ backup.kind # "absent"
    /\ primary' = Absent
    /\ UNCHANGED <<pc, loop, idx, movies, newMovies, backup, done, events,
                   lastCkpt, lastExit, recovered, discovered, rootListing>>

\* the user deletes movies.p and movies.p.bak (docstring, "Starting
\* Fresh"): every movie is new again, and so is the history
DeleteBoth ==
    /\ pc = "stopped"
    /\ <<primary, backup>> # <<Absent, Absent>>
    /\ primary' = Absent
    /\ backup' = Absent
    /\ done' = {}
    /\ lastCkpt' = Absent
    /\ lastExit' = NoExit
    /\ pc' = "stopped"
    /\ UNCHANGED <<loop, idx, movies, newMovies, events, recovered, discovered, rootListing>>

\* the process is terminated once a dump has completed and before the copy
\* to the backup has: the primary holds the whole registry
CrashAfterDump ==
    /\ pc \in {"copy", "copy_write"}
    /\ Crash

\* the statements of main()
Statements ==
    \/ Start
    \/ RecoverClose
    \/ Load
    \/ Discover
    \/ Merge
    \/ DumpOpen
    \/ DumpClose
    \/ CopyOpen
    \/ CopyClose
    \/ Test
    \/ Call
    \/ CallRaises
    \/ Report

\* main() under crashes: every write succeeds or the process dies
NextCrash ==
    \/ Statements
    \/ Crash
    \/ DeletePrimary
    \/ DeleteBoth

\* ... under crashes that hit between the end of a dump and the end of the
\* copy that follows it
NextCrashAfterDump ==
    \/ Statements
    \/ CrashAfterDump
    \/ DeletePrimary
    \/ DeleteBoth

\* ... and under crashes and writes that fail
Next ==
    \/ NextCrash
    \/ WriteFails

\* main() run after run, no crash and no failing write
SpecNoCrash == Init /\ [][Statements]_vars

SpecCrash == Init /\ [][NextCrash]_vars

SpecCrashAfterDump == Init /\ [][NextCrashAfterDump]_vars

Spec == Init /\ [][Next]_vars

(***************************************************************************)
(* Properties                                                              *)
(***************************************************************************)
Paths(reg) == {reg[i].path : i \in 1..Len(reg)}

\* reg marks stage k of the job with path p as completed
Marked(reg, p, k) == \E i \in 1..Len(reg) : reg[i].path = p /\ Flag(k, reg[i])

\* the registry has just been loaded at startup (l.261-266)
JustRecovered == pc = "discover"

\* the lists have just been merged (l.287)
JustMerged == pc = "dump" /\ loop = 0

\* C1: after a crash during a checkpoint write (primary truncated or being
\* written, between the dump and the copy, backup being copied), with a
\* checkpoint completed earlier, the next startup recovers the registry of
\* the last completed checkpoint.
C1_CrashSafety ==
    (JustRecovered /\ lastExit.how = "crash" /\ lastExit.writing
        /\ lastCkpt.kind = "full")
    => movies = lastCkpt.reg

\* C2: the merged list holds exactly one entry per path of the recovered or
\* the discovered list, and every recovered entry is in it unchanged.
C2_Dedup ==
    JustMerged =>
        /\ Paths(movies) = Paths(recovered) \cup Paths(discovered)
        /\ \A i, j \in 1..Len(movies) :
              movies[i].path = movies[j].path => i = j
        /\ \A i \in 1..Len(recovered) :
              \E j \in 1..Len(movies) : movies[j] = recovered[i]

\* C2 witness: a recovered job with progress is discovered again, next to a
\* new one
C2_Witness ==
    /\ JustMerged
    /\ \E i \in 1..Len(recovered) :
          recovered[i].extracted /\ recovered[i].path \in Paths(discovered)
    /\ Paths(discovered) \ Paths(recovered) # {}

\* C3: a failing stage operation leaves the job's flag false, does not end
\* the run, and every other job whose flag for the stage is false has the
\* operation invoked in the same pass.
C3_StageIsolation ==
    /\ lastExit.how # "stage exception"
    /\ (pc = "test" /\ loop \in 1..3 /\ idx > Len(movies)) =>
          \A e \in events :
             (e.what = "fail" /\ e.stage = loop) =>
                /\ ~Marked(movies, e.path, loop)
                /\ \A i \in 1..Len(movies) :
                      ~Flag(loop, movies[i]) =>
                          Event("call", loop, movies[i]) \in events

\* C4: a stage n+1 operation is invoked only after the pass over stage n has
\* visited every job; no stage n operation is invoked after a stage n+1 one.
C4_StageOrder ==
    /\ \A e \in events :
          (e.what = "call" /\ e.stage > 1) =>
              \A i \in 1..Len(movies) :
                  Event("visit", e.stage - 1, movies[i]) \in events
    /\ pc = "call" =>
          \A e \in events : e.what = "call" => e.stage <= loop

\* C4 witness: with two jobs, a convert is invoked after an extract
C4_Witness ==
    /\ pc = "call"
    /\ loop = 2
    /\ Len(movies) = 2
    /\ \E e \in events : e.what = "call" /\ e.stage = 1

\* C5: a stage operation is invoked on a job only when the job's flag for
\* the preceding stage is true.
C5_StageDependency ==
    (pc = "call" /\ loop > 1) => Flag(loop - 1, movies[idx])

\* C6: a stage flag whose operation has completed (the flag has been true)
\* is not false in the registry in memory, in this run or after a restart.
C6_StageMonotonic ==
    \A i \in 1..Len(movies) : \A k \in 1..4 :
        <<movies[i].path, k>> \in done => Flag(k, movies[i])

\* C7: a stage operation that has completed for a job is never invoked for
\* that job again.
C7_NoRepeat ==
    pc = "call" => <<movies[idx].path, loop>> \notin done

\* C8: after a crash, at most one completed (job, stage) operation is not
\* marked true in the registry recovered at the next startup.
C8_BoundedLoss ==
    (JustRecovered /\ lastExit.how = "crash") =>
        Cardinality({d \in done : ~Marked(movies, d[1], d[2])}) <= 1

\* the registries at hand: in memory, in the primary, in the backup
Registries ==
    {movies} \cup {f.reg : f \in {g \in {primary, backup} : g.kind = "full"}}

\* C9: a flag that is true in a loadable primary, a loadable backup or the
\* registry in memory (recovered at startup included) belongs to a stage
\* operation that completed without error for that job.
C9_Truthful ==
    \A reg \in Registries : \A i \in 1..Len(reg) : \A k \in 1..4 :
        Flag(k, reg[i]) => <<reg[i].path, k>> \in done

\* C9 witness: a startup has recovered a flag that the primary and the
\* backup hold as well
C9_Witness ==
    /\ JustRecovered
    /\ \E i \in 1..Len(movies) : movies[i].encoded
    /\ primary = Full(movies)
    /\ backup = Full(movies)

\* C10: when a stage operation is invoked, every stage operation that has
\* succeeded in this run is marked in the primary record, which holds the
\* whole registry.
C10_PersistBeforeNext ==
    (pc = "call" /\ \E e \in events : e.what = "ok") =>
        /\ primary = Full(movies)
        /\ \A e \in events :
              e.what = "ok" => Marked(primary.reg, e.path, e.stage)

\* C10 witness: the operation of a second job is invoked after the first
\* job's has succeeded in the same pass
C10_Witness ==
    /\ pc = "call"
    /\ \E e \in events :
          e.what = "ok" /\ e.stage = loop /\ e.path # movies[idx].path

\* C11: whenever Ripmaster is running and is not writing the backup, a
\* backup record that exists holds a complete registry, the one the last
\* completed copy took from the primary.
C11_BackupKnownGood ==
    (pc \notin {"stopped", "copy_write"} /\ backup.kind # "absent") =>
        /\ backup.kind = "full"
        /\ backup = lastCkpt

\* C12: a copy of the primary to the backup that fails does not end the
\* run: no run of main is left through the IOError of a copyfile to
\* movies.p.bak.
C12_CopyFailureTolerated == lastExit.how # "copy exception"

C14_ReadNeverFails ==
    /\ lastExit.how # "load exception"
    /\ (JustRecovered /\ primary.kind # "full") => movies = <<>>

\* the pairs get_movies is to turn into candidates: a listed subdirectory
\* with the separator (l.226) and a file of it that passes the test of l.232
Candidates(l) ==
    {<<d, f>> \in DirNames \X {FileM, FileMConv, FileN, FileTxt, FileJ} :
        /\ \E i \in 1..Len(l) : l[i] = d
        /\ Contains(<<"_", "_">>, d)
        /\ \E j \in 1..Len(ListDir(d)) : ListDir(d)[j] = f
        /\ Contains(<<".mkv">>, f)
        /\ ~Contains(<<"--converted">>, f)}

\* C15: for every listing of the root, get_movies returns one candidate,
\* and one only, for every pair of a listed subdirectory with "__" in its
\* name and a file of it that is an .mkv without "--converted"; it returns
\* nothing else, and no such subdirectory is passed over.
C15_DiscoveryComplete ==
    pc = "merge" =>
        /\ Paths(discovered) = Candidates(rootListing)
        /\ Cardinality(Paths(discovered)) = Len(discovered)

\* C16: when the list of completed movies is printed, every job on it has
\* its four flags (extracted, converted, encoded, merged) true.
C16_ReportOnlyFinished ==
    pc = "report" =>
        \A n \in 1..Len(Reported) : \A i \in 1..Len(movies) :
            movies[i].path = Reported[n] =>
                \A k \in 1..4 : Flag(k, movies[i])

\* the elements of a list, and the orderings of a list of distinct elements
Range(s) == {s[i] : i \in 1..Len(s)}
Orderings(s) == {t \in [1..Len(s) -> Range(s)] : Range(t) = Range(s)}

\* C17: once the merge is done, the jobs of the registry (paths with their
\* flags) are those the merge yields for every ordering of the recovered
\* list and every ordering of the discovered list, and their number is
\* |recovered| + |discovered| less the number of discovered candidates
\* whose path is in the recovered list.
C17_MergeOrderIndependent ==
    JustMerged =>
        /\ \A R \in Orderings(recovered) : \A D \in Orderings(discovered) :
              Range(R \o Filtered(R, D)) = Range(movies)
        /\ Len(movies) =
              Len(recovered) + Len(discovered)
              - Cardinality({j \in 1..Len(discovered) :
                               discovered[j].path \in Paths(recovered)})

\* C17 witness: two jobs recovered, one of them marked, and the same two
\* discovered in the opposite order
C17_Witness ==
    /\ JustMerged
    /\ Len(recovered) = 2
    /\ Len(discovered) = 2
    /\ recovered[1].path = discovered[2].path
    /\ recovered[2].path = discovered[1].path
    /\ recovered[2].extracted
    /\ Len(movies) = 2

\* C18: when a run in which no stage operation has failed reaches its end,
\* every job has extracted, converted, encoded and merged true in memory,
\* in the primary record and in the backup record.
C18_PipelineCompletes ==
    (pc = "report" /\ \A e \in events : e.what # "fail") =>
        /\ primary = Full(movies)
        /\ backup = Full(movies)
        /\ \A i \in 1..Len(movies) : \A k \in 1..4 : Flag(k, movies[i])

\* C19: a job whose stage operation has failed in a run is in the registry
\* the next startup recovers; a stage operation is invoked at most once
\* per job in a run; and at the end of a run every job with a stage flag
\* still false has had that stage operation invoked in the run.
C19_RetryAcrossRuns ==
    /\ JustRecovered => \A f \in lastExit.failed : f[1] \in Paths(movies)
    /\ pc = "call" => Event("call", loop, movies[idx]) \notin events
    /\ pc = "report" =>
          \A i \in 1..Len(movies) : \A k \in 1..3 :
              ~Flag(k, movies[i]) => Event("call", k, movies[i]) \in events

====
